---- MODULE Spec2Model ----
(***************************************************************************)
(* The hexagonal canvas backend of rot.js (src/display/hex.ts) with its    *)
(* two base classes (src/display/canvas.ts) and the backend contract       *)
(* (src/display/types.ts).                                                 *)
(*                                                                         *)
(* Numbers.  The geometry of a hex grid is made of integers and of         *)
(* multiples of sqrt(3).  A number is kept exactly, as the record          *)
(* [a, b, d] that stands for (a + b*sqrt(3)) / d with d > 0, so that       *)
(* Math.floor and Math.ceil are computed exactly and not approximated.     *)
(* JavaScript's NaN is the record [nan |-> TRUE].  A double differs from   *)
(* the exact value only where a quotient of two multiples of sqrt(3) is   *)
(* an integer (a pixel exactly on the line between two columns): there    *)
(* the double may round to the column on the left.                        *)
(*                                                                         *)
(* Option values.  A JavaScript value is [num |-> n], [str |-> s],         *)
(* [bool |-> b] or Undefined.  An options object is a function from the    *)
(* keys it HAS to their values: an absent key is not in its DOMAIN, a key  *)
(* present with the value undefined is in its DOMAIN and maps to           *)
(* Undefined.                                                              *)
(***************************************************************************)
EXTENDS Integers, Sequences, FiniteSets, TLC

(***************************************************************************)
(* Bounds of the model (not program constants).                            *)
(***************************************************************************)
\* Client coordinates offered to eventToPosition run over -1 .. MaxPixel.
MaxPixel == 16
\* Pixel boxes offered to computeSize / computeFontSize are 1 .. MaxBox.
MaxBox == 12
\* Grids of the geometry queries have 2 .. MaxGrid columns and rows.
MaxGrid == 3
\* A cell's glyph sequence has at most MaxChars entries.
MaxChars == 2
\* At most MaxCalls calls of setOptions() are made in one behaviour.
MaxCalls == 3
\* At most MaxSchedule calls of schedule() are made in one behaviour.
MaxSchedule == 3

(***************************************************************************)
(* Exact arithmetic in Q(sqrt 3).                                          *)
(***************************************************************************)
Abs(n) == IF n < 0 THEN -n ELSE n

RECURSIVE GCD(_, _)
GCD(m, n) == IF n = 0 THEN m ELSE GCD(n, m % n)

\* The largest k with lo <= k <= hi and k*k <= n (0 <= lo*lo <= n < (hi+1)^2).
RECURSIVE SqrtSearch(_, _, _)
SqrtSearch(n, lo, hi) ==
    IF lo = hi THEN lo
    ELSE LET mid == (lo + hi + 1) \div 2
         IN  IF mid * mid <= n THEN SqrtSearch(n, mid, hi)
             ELSE SqrtSearch(n, lo, mid - 1)

\* floor(sqrt(n)) for 0 <= n < 2^30.
ISqrt(n) == SqrtSearch(n, 0, 32767)

\* floor(b * sqrt(3)) for an integer b.
FloorRoot3(b) ==
    IF b >= 0 THEN ISqrt(3 * b * b) ELSE -(ISqrt(3 * b * b) + 1)

NaN == [nan |-> TRUE]
IsNaN(p) == "nan" \in DOMAIN p

Norm(p) ==
    LET g == GCD(GCD(Abs(p.a), Abs(p.b)), p.d)
    IN  [a |-> p.a \div g, b |-> p.b \div g, d |-> p.d \div g]

Q(a, b, d) == Norm([a |-> a, b |-> b, d |-> d])
Int2Q(n) == [a |-> n, b |-> 0, d |-> 1]
Root3 == [a |-> 0, b |-> 1, d |-> 1]

Neg(p) == [a |-> -p.a, b |-> -p.b, d |-> p.d]
Add(p, q) == Q(p.a * q.d + q.a * p.d, p.b * q.d + q.b * p.d, p.d * q.d)
Sub(p, q) == Add(p, Neg(q))
Mul(p, q) == Q(p.a * q.a + 3 * p.b * q.b, p.a * q.b + p.b * q.a, p.d * q.d)

\* 1/q for q # 0: d*(a - b*sqrt 3) / (a*a - 3*b*b).
Recip(q) ==
    LET n == q.a * q.a - 3 * q.b * q.b
    IN  IF n > 0 THEN Q(q.d * q.a, -(q.d * q.b), n)
        ELSE Q(-(q.d * q.a), q.d * q.b, -n)
Div(p, q) == Mul(p, Recip(q))

\* The sign of a + b*sqrt(3): -1, 0 or 1.
Sgn(p) ==
    IF p.a = 0 /\ p.b = 0 THEN 0
    ELSE IF p.a >= 0 /\ p.b >= 0 THEN 1
    ELSE IF p.a <= 0 /\ p.b <= 0 THEN -1
    ELSE IF p.a > 0 THEN (IF p.a * p.a > 3 * p.b * p.b THEN 1 ELSE -1)
    ELSE (IF 3 * p.b * p.b > p.a * p.a THEN 1 ELSE -1)

Lt(p, q) == Sgn(Sub(p, q)) < 0
MinQ(p, q) == IF Lt(q, p) THEN q ELSE p

\* Math.floor and Math.ceil, as integers.
Floor(p) == (p.a + FloorRoot3(p.b)) \div p.d
Ceil(p) == -Floor(Neg(p))

\* util.mod(x, n): the non-negative remainder.
mod(x, n) == ((x % n) + n) % n

(***************************************************************************)
(* JavaScript values and option objects.                                   *)
(***************************************************************************)
Undefined == [undefined |-> TRUE]
Num(n) == [num |-> n]
Str(s) == [str |-> s]
Bool(b) == [bool |-> b]
IsNum(v) == "num" \in DOMAIN v

\* o.k : the value of key k, undefined when the object has no such key.
Get(o, k) == IF k \in DOMAIN o THEN o[k] ELSE Undefined

\* {...d, ...o} : every key of o, absent or not, undefined or not, wins.
Spread(d, o) ==
    [k \in (DOMAIN d) \cup (DOMAIN o) |-> IF k \in DOMAIN o THEN o[k] ELSE d[k]]

\* JavaScript truthiness of a value.
Truthy(v) ==
    \/ "bool" \in DOMAIN v /\ v.bool
    \/ "num" \in DOMAIN v /\ v.num # 0
    \/ "str" \in DOMAIN v /\ v.str # ""

(***************************************************************************)
(* The state of one Hex backend, its canvas and its 2D context, the last   *)
(* call made on it, and the host's animation-frame callbacks.              *)
(***************************************************************************)
VARIABLES
    options,      \* this._options: the effective options
    hexSize,      \* this._hexSize
    spacingX,     \* this._spacingX
    spacingY,     \* this._spacingY
    canvas,       \* this._ctx.canvas: [width, height]
    ctx,          \* this._ctx: [font, fillStyle, textAlign, textBaseline]
    calls,        \* the number of setOptions() calls made so far
    arg,          \* the call about to be made on a configured backend
    last,         \* the last call: its name, arguments, return value
    ops,          \* the surface operations the last draw() issued
    callbacks,    \* the host's list of animation frame callbacks, in order
    running,      \* the callbacks the current frame has still to invoke
    nextId,       \* the number of schedule() calls made so far
    active,       \* the schedule() call now on the stack, or 0
    invoked       \* the callbacks invoked so far, in order of invocation

vars == <<options, hexSize, spacingX, spacingY, canvas, ctx, calls, arg, last, ops,
          callbacks, running, nextId, active, invoked>>
backend == <<options, hexSize, spacingX, spacingY, canvas, ctx>>
caller == <<calls, arg, last, ops>>
raf == <<callbacks, running, nextId, active, invoked>>

(***************************************************************************)
(* NaN-propagating arithmetic on JavaScript numbers.                       *)
(***************************************************************************)
ToNumber(v) == IF IsNum(v) THEN Int2Q(v.num) ELSE NaN
NAdd(p, q) == IF IsNaN(p) \/ IsNaN(q) THEN NaN ELSE Add(p, q)
NMul(p, q) == IF IsNaN(p) \/ IsNaN(q) THEN NaN ELSE Mul(p, q)
NFloor(p) == IF IsNaN(p) THEN NaN ELSE Int2Q(Floor(p))

(***************************************************************************)
(* The host's canvas and 2D context.                                       *)
(***************************************************************************)
\* The context state of a fresh or resized canvas.
DefaultContext ==
    [font |-> [style |-> "", px |-> 10, family |-> "sans-serif"],
     fillStyle |-> "#000000", textAlign |-> "start",
     textBaseline |-> "alphabetic"]

\* The advance width of "W" per pixel of font size, as a fraction [n, d]:
\* 0.6 of the font size in the usual monospace font, 0.55 in Consolas, the
\* full font size in the proportional ones.
CharRatio(family) ==
    IF family = "monospace" THEN [n |-> 3, d |-> 5]
    ELSE IF family = "Consolas" THEN [n |-> 11, d |-> 20]
    ELSE [n |-> 1, d |-> 1]

\* ctx.measureText("W").width under the font f.
measureText(f) == Q(f.px * CharRatio(f.family).n, 0, CharRatio(f.family).d)

\* ctx.font = `${style} ${fontSize}px ${fontFamily}`: a string that is no
\* CSS font (its size is not a number) is ignored by the context.
SetFont(c, style, fontSize, fontFamily) ==
    IF IsNum(fontSize) /\ "str" \in DOMAIN fontFamily
    THEN [c EXCEPT !.font = [style |-> style, px |-> fontSize.num,
                             family |-> fontFamily.str]]
    ELSE c

\* canvas.width = v, canvas.height = v: an unsigned long, NaN becomes 0.
CanvasDim(p) == IF IsNaN(p) THEN 0 ELSE Ceil(p)

(***************************************************************************)
(* Defaults and defaulting.                                                *)
(***************************************************************************)
\* Backend.DEFAULTS
BackendDEFAULTS ==
    [width |-> Num(80), height |-> Num(25), layout |-> Str("rect"),
     fg |-> Str("#ccc"), bg |-> Str("#000")]

\* Canvas.DEFAULTS
CanvasDEFAULTS ==
    Spread(BackendDEFAULTS,
           [fontSize |-> Num(15), spacing |-> Num(1), border |-> Num(0),
            fontFamily |-> Str("monospace"), fontStyle |-> Str("")])

\* Hex.DEFAULTS
HexDEFAULTS == Spread(CanvasDEFAULTS, [transpose |-> Bool(FALSE)])

\* Hex.defaultedOptions
defaultedOptions(opts) == Spread(HexDEFAULTS, opts)

\* Hex.checkOptions
checkOptions(opts) == Get(opts, "layout") = Str("hex")

(***************************************************************************)
(* Hex._updateSize, on the backend s = [options, hexSize, spacingX,        *)
(* spacingY, canvas, ctx].                                                 *)
(***************************************************************************)
\* Math.floor(spacing * (fontSize + charWidth/Math.sqrt(3)) / 2)
HexSizeFor(spacing, fontSize, charWidth) ==
    NFloor(NMul(NMul(spacing, NAdd(fontSize, Div(Int2Q(charWidth), Root3))),
                Q(1, 0, 2)))

updateSize(s) ==
    LET opts == s.options
        charWidth == Ceil(measureText(s.ctx.font))
        hs == HexSizeFor(ToNumber(Get(opts, "spacing")),
                         ToNumber(Get(opts, "fontSize")), charWidth)
        sX == NMul(hs, Q(0, 1, 2))
        sY == NMul(hs, Q(3, 0, 2))
        xdim == CanvasDim(NMul(NAdd(ToNumber(Get(opts, "width")), Int2Q(1)), sX))
        ydim == CanvasDim(NAdd(NMul(NAdd(ToNumber(Get(opts, "height")), Int2Q(-1)), sY),
                               NMul(Int2Q(2), hs)))
    IN  [s EXCEPT !.hexSize = hs, !.spacingX = sX, !.spacingY = sY,
                  !.canvas = IF Truthy(Get(opts, "transpose"))
                             THEN [width |-> ydim, height |-> xdim]
                             ELSE [width |-> xdim, height |-> ydim],
                  \* assigning a canvas dimension resets its context
                  !.ctx = DefaultContext]

(***************************************************************************)
(* setOptions, from the base class down.  Each returns [self, ret].        *)
(***************************************************************************)
\* Backend.setOptions: stores the defaulted options; a repaint is needed on
\* the first call and when width, height, fg, bg or layout changed.
BackendSetOptions(s, opts) ==
    LET new == defaultedOptions(opts)
    IN  [self |-> [s EXCEPT !.options = new],
         ret |-> \E k \in {"width", "height", "fg", "bg", "layout"} :
                     Get(s.options, k) # Get(new, k)]

\* BaseCanvas.setOptions
BaseCanvasSetOptions(s, opts) ==
    LET r == BackendSetOptions(s, opts)
    IN  IF r.ret THEN [self |-> updateSize(r.self), ret |-> TRUE] ELSE r

\* Canvas.setOptions
CanvasSetOptions(s, opts) ==
    LET fontSize == Get(s.options, "fontSize")
        fontFamily == Get(s.options, "fontFamily")
        spacing == Get(s.options, "spacing")
        r == BaseCanvasSetOptions(s, opts)
        needsRepaint == \/ r.ret
                        \/ fontSize # Get(opts, "fontSize")
                        \/ fontFamily # Get(opts, "fontFamily")
                        \/ spacing # Get(opts, "spacing")
        o == r.self.options
        style == IF Truthy(Get(o, "fontStyle")) THEN Get(o, "fontStyle").str ELSE ""
        s1 == [r.self EXCEPT !.ctx = SetFont(@, style, Get(o, "fontSize"),
                                             Get(o, "fontFamily"))]
        s2 == updateSize(s1)
        s3 == [s2 EXCEPT !.ctx = [SetFont(@, style, Get(o, "fontSize"),
                                          Get(o, "fontFamily"))
                                  EXCEPT !.textAlign = "center",
                                         !.textBaseline = "middle"]]
    IN  IF needsRepaint THEN [self |-> s3, ret |-> TRUE]
        ELSE [self |-> r.self, ret |-> FALSE]

\* Backend.getOptions
getOptions(s) == s.options

\* The backend as one record.
Self ==
    [options |-> options, hexSize |-> hexSize, spacingX |-> spacingX,
     spacingY |-> spacingY, canvas |-> canvas, ctx |-> ctx]

\* A Hex backend as its constructor leaves it.
NewHex ==
    [options |-> << >>, hexSize |-> Int2Q(0), spacingX |-> Int2Q(0),
     spacingY |-> Int2Q(0), canvas |-> [width |-> 300, height |-> 150],
     ctx |-> DefaultContext]

NoCall == [op |-> "none"]

(***************************************************************************)
(* The option objects a caller passes.  A field set holds the values a     *)
(* key may take and Absent for "the object has no such key".               *)
(***************************************************************************)
Absent == [absent |-> TRUE]

\* The object with the keys of f that are not Absent.
Object(f) == [k \in {j \in DOMAIN f : f[j] # Absent} |-> f[k]]

OptionInputs ==
    { Object(f) : f \in
        [width : {Absent, Num(3)},
         height : {Num(2)},
         layout : {Str("hex")},
         fg : {Absent, Str("#fff")},
         fontSize : {Absent, Num(16)},
         spacing : {Absent, Num(2)},
         border : {Absent, Undefined},
         fontFamily : {Absent, Str("serif")},
         transpose : {Absent, Bool(TRUE), Bool(FALSE)}] }

(***************************************************************************)
(* The option state machine: construction, then setOptions calls.          *)
(***************************************************************************)
Init ==
    /\ options = NewHex.options
    /\ hexSize = NewHex.hexSize
    /\ spacingX = NewHex.spacingX
    /\ spacingY = NewHex.spacingY
    /\ canvas = NewHex.canvas
    /\ ctx = NewHex.ctx
    /\ calls = 0
    /\ arg = NoCall
    /\ last = NoCall
    /\ ops = << >>
    /\ callbacks = << >>
    /\ running = << >>
    /\ nextId = 0
    /\ active = 0
    /\ invoked = << >>

\* backend.setOptions(opts), for options the backend accepts (checkOptions).
SetOptions(opts) ==
    /\ calls < MaxCalls
    /\ checkOptions(opts)
    /\ \E r \in {CanvasSetOptions(Self, opts)} :
           /\ options' = r.self.options
           /\ hexSize' = r.self.hexSize
           /\ spacingX' = r.self.spacingX
           /\ spacingY' = r.self.spacingY
           /\ canvas' = r.self.canvas
           /\ ctx' = r.self.ctx
           /\ last' = [op |-> "setOptions", opts |-> opts, ret |-> r.ret]
    /\ calls' = calls + 1
    /\ UNCHANGED <<arg, ops, raf>>

Next == \E opts \in OptionInputs : SetOptions(opts)

Spec == Init /\ [][Next]_vars

(***************************************************************************)
(* Claims about the option state machine.                                  *)
(***************************************************************************)
\* o over the defaults d, a key that is absent or undefined left to d.
MergedOver(d, o) ==
    [k \in (DOMAIN d) \cup (DOMAIN o) |->
        IF k \in DOMAIN o /\ (o[k] # Undefined \/ k \notin DOMAIN d)
        THEN o[k] ELSE d[k]]

RepaintKeys ==
    {"width", "height", "fg", "bg", "layout", "fontSize", "fontFamily", "spacing"}

\* C1: a setOptions call returns true exactly when it is the first call or
\* one of width, height, fg, bg, layout, fontSize, fontFamily, spacing of
\* the options passed (fields left out taking their defaults) differs from
\* the effective options in force before the call.
C1_RepaintIffChanged ==
    [][ calls' = calls + 1 =>
          (last'.ret <=>
             \/ calls = 0
             \/ \E k \in RepaintKeys :
                    Get(MergedOver(HexDEFAULTS, last'.opts), k) # Get(options, k))
      ]_vars

\* C2: after setOptions(o), getOptions() is o merged over the hex defaults
\* and none of its fields is undefined.
C2_EffectiveIsMerged ==
    last.op = "setOptions" =>
        /\ getOptions(Self) = MergedOver(HexDEFAULTS, last.opts)
        /\ \A k \in DOMAIN getOptions(Self) : getOptions(Self)[k] # Undefined

\* The geometry _updateSize derives from the effective options, measuring
\* under the font those options name.
DerivedGeometry ==
    LET o == options
        style == IF Truthy(Get(o, "fontStyle")) THEN Get(o, "fontStyle").str ELSE ""
    IN  updateSize([Self EXCEPT !.ctx = SetFont(@, style, Get(o, "fontSize"),
                                                Get(o, "fontFamily"))])

\* C9: in every state reached after a setOptions call returns, hexSize,
\* spacingX, spacingY and the canvas width and height are the values
\* _updateSize derives from the effective options.
C9_GeometryFollowsOptions ==
    last.op = "setOptions" =>
        /\ hexSize = DerivedGeometry.hexSize
        /\ spacingX = DerivedGeometry.spacingX
        /\ spacingY = DerivedGeometry.spacingY
        /\ canvas = DerivedGeometry.canvas

(***************************************************************************)
(* schedule() and the host's animation frames.  A schedule call is         *)
(* [id, cb]: the id numbers the calls in the order they are made, cb is    *)
(* the function passed.  JavaScript runs to completion: a frame starts     *)
(* only when no call is on the stack.                                      *)
(***************************************************************************)
Callbacks == {"tick", "redraw"}

\* window.requestAnimationFrame(cb): the host appends cb to its list.
requestAnimationFrame(list, entry) == Append(list, entry)

\* The mutant of BaseCanvas.schedule that runs the callback at once.
scheduleSynchronously(host, entry) ==
    [host EXCEPT !.invoked = Append(@, entry)]

\* BaseCanvas.schedule, on the host state [callbacks, invoked].
schedule(host, entry) ==
    [host EXCEPT !.callbacks = requestAnimationFrame(@, entry)]

\* backend.schedule(cb) is called and runs its body.
Schedule(cb) ==
    /\ nextId < MaxSchedule
    /\ active = 0
    /\ \E h \in {schedule([callbacks |-> callbacks, invoked |-> invoked],
                          [id |-> nextId + 1, cb |-> cb])} :
           /\ callbacks' = h.callbacks
           /\ invoked' = h.invoked
    /\ nextId' = nextId + 1
    /\ active' = nextId + 1
    /\ UNCHANGED <<backend, caller, running>>

\* The schedule call returns to its caller.
ScheduleReturn ==
    /\ active # 0
    /\ active' = 0
    /\ UNCHANGED <<backend, caller, callbacks, running, nextId, invoked>>

\* The host starts a frame: it takes the list of callbacks as it stands.
FrameBegin ==
    /\ active = 0
    /\ running = << >>
    /\ callbacks # << >>
    /\ running' = callbacks
    /\ callbacks' = << >>
    /\ UNCHANGED <<backend, caller, nextId, active, invoked>>

\* The frame invokes the next callback of its list.
RunCallback ==
    /\ active = 0
    /\ running # << >>
    /\ invoked' = Append(invoked, Head(running))
    /\ running' = Tail(running)
    /\ UNCHANGED <<backend, caller, callbacks, nextId, active>>

NextSchedule ==
    \/ \E cb \in Callbacks : Schedule(cb)
    \/ ScheduleReturn
    \/ FrameBegin
    \/ RunCallback

\* The host keeps producing frames and a call on the stack returns.
SpecSchedule ==
    /\ Init
    /\ [][NextSchedule]_vars
    /\ WF_vars(ScheduleReturn)
    /\ WF_vars(FrameBegin)
    /\ WF_vars(RunCallback)

InvokedIds == {invoked[i].id : i \in 1..Len(invoked)}

\* C3: no callback runs before the schedule call that registered it has
\* returned, no schedule call has its callback invoked twice, callbacks are
\* invoked in the order they were scheduled, and every schedule call is
\* followed by the invocation of its callback.
C3_ScheduleOnceDeferredFifo ==
    /\ [](active # 0 => active \notin InvokedIds)
    /\ [](\A i, j \in 1..Len(invoked) : i < j => invoked[i].id < invoked[j].id)
    /\ \A id \in 1..MaxSchedule, cb \in Callbacks :
           (\E i \in 1..Len(callbacks) : callbacks[i] = [id |-> id, cb |-> cb])
               ~> (\E i \in 1..Len(invoked) : invoked[i] = [id |-> id, cb |-> cb])

\* Two calls were scheduled, both have returned and both callbacks have run.
C3_Witness ==
    /\ Len(invoked) >= 2
    /\ active = 0
    /\ callbacks = << >>
    /\ running = << >>

(***************************************************************************)
(* Drawing and geometry queries of a configured backend s.                 *)
(***************************************************************************)
\* Hex._fill: the hexagon around (cx, cy), filled with the current style.
fill(s, cx, cy) ==
    LET a == s.hexSize
        b == ToNumber(Get(s.options, "border"))
        sX == s.spacingX
        half == Mul(a, Q(1, 0, 2))
        path == IF Truthy(Get(s.options, "transpose"))
                THEN << <<Add(Sub(cx, a), b), cy>>,
                        <<Add(Sub(cx, half), b), Sub(Add(cy, sX), b)>>,
                        <<Sub(Add(cx, half), b), Sub(Add(cy, sX), b)>>,
                        <<Sub(Add(cx, a), b), cy>>,
                        <<Sub(Add(cx, half), b), Add(Sub(cy, sX), b)>>,
                        <<Add(Sub(cx, half), b), Add(Sub(cy, sX), b)>>,
                        <<Add(Sub(cx, a), b), cy>> >>
                ELSE << <<cx, Add(Sub(cy, a), b)>>,
                        <<Sub(Add(cx, sX), b), Add(Sub(cy, half), b)>>,
                        <<Sub(Add(cx, sX), b), Sub(Add(cy, half), b)>>,
                        <<cx, Sub(Add(cy, a), b)>>,
                        <<Add(Sub(cx, sX), b), Sub(Add(cy, half), b)>>,
                        <<Add(Sub(cx, sX), b), Add(Sub(cy, half), b)>>,
                        <<cx, Add(Sub(cy, a), b)>> >>
    IN  [op |-> "fill", path |-> path, fillStyle |-> s.ctx.fillStyle]

\* The pixel at which draw places cell (x, y): [(x+1)*spacingX,
\* y*spacingY + hexSize], reversed under transpose.
CellPixel(s, x, y) ==
    LET px == <<Mul(Int2Q(x + 1), s.spacingX),
                Add(Mul(Int2Q(y), s.spacingY), s.hexSize)>>
    IN  IF Truthy(Get(s.options, "transpose")) THEN <<px[2], px[1]>> ELSE px

\* The mutant of Hex.draw that issues a fillText per glyph but the last.
drawDroppingLastGlyph(s, data, clearBefore) ==
    LET px == CellPixel(s, data.x, data.y)
        cleared == IF clearBefore
                   THEN <<fill([s EXCEPT !.ctx.fillStyle = data.bg], px[1], px[2])>>
                   ELSE << >>
        texts == [i \in 1..(Len(data.chars) - 1) |->
                    [op |-> "fillText", text |-> data.chars[i], x |-> px[1],
                     y |-> Int2Q(Ceil(px[2])), fillStyle |-> data.fg]]
    IN  [ops |-> cleared \o texts, fillStyle |-> s.ctx.fillStyle]

\* Hex.draw: the surface operations it issues, and the fill style it leaves.
draw(s, data, clearBefore) ==
    LET px == CellPixel(s, data.x, data.y)
        cleared == IF clearBefore
                   THEN <<fill([s EXCEPT !.ctx.fillStyle = data.bg], px[1], px[2])>>
                   ELSE << >>
        texts == [i \in 1..Len(data.chars) |->
                    [op |-> "fillText", text |-> data.chars[i], x |-> px[1],
                     y |-> Int2Q(Ceil(px[2])), fillStyle |-> data.fg]]
    IN  [ops |-> cleared \o texts,
         fillStyle |-> IF Len(data.chars) # 0 THEN data.fg
                       ELSE IF clearBefore THEN data.bg
                       ELSE s.ctx.fillStyle]

\* The mutant of Hex.computeSize that does not swap the box under transpose.
computeSizeWithoutSwap(s, availWidth, availHeight) ==
    << Floor(Div(Int2Q(availWidth), s.spacingX)) - 1,
       Floor(Add(Div(Sub(Int2Q(availHeight), Mul(Int2Q(2), s.hexSize)), s.spacingY),
                 Int2Q(1))) >>

\* Hex.computeSize
computeSize(s, availWidth, availHeight) ==
    LET t == Truthy(Get(s.options, "transpose"))
        aW == IF t THEN availHeight ELSE availWidth
        aH == IF t THEN availWidth ELSE availHeight
    IN  << Floor(Div(Int2Q(aW), s.spacingX)) - 1,
           Floor(Add(Div(Sub(Int2Q(aH), Mul(Int2Q(2), s.hexSize)), s.spacingY),
                     Int2Q(1))) >>

\* Hex.computeFontSize
computeFontSize(s, availWidth, availHeight) ==
    LET t == Truthy(Get(s.options, "transpose"))
        aW == IF t THEN availHeight ELSE availWidth
        aH == IF t THEN availWidth ELSE availHeight
        width == Get(s.options, "width").num
        height == Get(s.options, "height").num
        hexSizeWidth == Sub(Div(Int2Q(2 * aW), Mul(Int2Q(width + 1), Root3)),
                            Int2Q(1))
        hexSizeHeight == Div(Int2Q(aH),
                             Add(Int2Q(2), Mul(Q(3, 0, 2), Int2Q(height - 1))))
        charWidth == Ceil(measureText([style |-> "", px |-> 100,
                                       family |-> Get(s.options, "fontFamily").str]))
        ratio == Q(charWidth, 0, 100)
        hs == Floor(MinQ(hexSizeWidth, hexSizeHeight)) + 1
        fontSize == Div(Int2Q(2 * hs),
                        Mul(ToNumber(Get(s.options, "spacing")),
                            Add(Int2Q(1), Div(ratio, Root3))))
    IN  Ceil(fontSize) - 1

\* The mutant of Hex._normalizedEventToPosition that does not take the
\* half-spacing offset off an odd row.
normalizedEventToPositionWithoutOffset(s, x0, y0) ==
    LET t == Truthy(Get(s.options, "transpose"))
        x == IF t THEN y0 ELSE x0
        y == IF t THEN x0 ELSE y0
        nodeSize == IF t THEN s.canvas.width ELSE s.canvas.height
        size == Q(nodeSize, 0, Get(s.options, "height").num)
        row == Floor(Div(y, size))
        twice == Mul(Int2Q(2), s.spacingX)
    IN  IF mod(row, 2) # 0
        THEN <<1 + 2 * Floor(Div(x, twice)), row>>
        ELSE <<2 * Floor(Div(x, twice)), row>>

\* Hex._normalizedEventToPosition
normalizedEventToPosition(s, x0, y0) ==
    LET t == Truthy(Get(s.options, "transpose"))
        x == IF t THEN y0 ELSE x0
        y == IF t THEN x0 ELSE y0
        nodeSize == IF t THEN s.canvas.width ELSE s.canvas.height
        size == Q(nodeSize, 0, Get(s.options, "height").num)
        row == Floor(Div(y, size))
        twice == Mul(Int2Q(2), s.spacingX)
    IN  IF mod(row, 2) # 0
        THEN <<1 + 2 * Floor(Div(Sub(x, s.spacingX), twice)), row>>
        ELSE <<2 * Floor(Div(x, twice)), row>>

\* The surface-space point of the client point (x, y) under the canvas's
\* bounding rectangle.
SurfacePoint(s, x, y, rect) ==
    << Mul(Sub(x, Int2Q(rect.left)), Q(s.canvas.width, 0, rect.width)),
       Mul(Sub(y, Int2Q(rect.top)), Q(s.canvas.height, 0, rect.height)) >>

\* The mutant of OutOfBounds that lets the last column and row through.
OutOfBoundsOffByOne(s, p) ==
    \/ Sgn(p[1]) < 0
    \/ Sgn(p[2]) < 0
    \/ Lt(Int2Q(s.canvas.width), p[1])
    \/ Lt(Int2Q(s.canvas.height), p[2])

\* x < 0 || y < 0 || x >= canvas.width || y >= canvas.height
OutOfBounds(s, p) ==
    \/ Sgn(p[1]) < 0
    \/ Sgn(p[2]) < 0
    \/ ~Lt(p[1], Int2Q(s.canvas.width))
    \/ ~Lt(p[2], Int2Q(s.canvas.height))

\* BaseCanvas.eventToPosition: the cell, and whether the layout's mapping
\* was consulted.
eventToPosition(s, x, y, rect) ==
    LET p == SurfacePoint(s, x, y, rect)
    IN  IF OutOfBounds(s, p)
        THEN [ret |-> <<-1, -1>>, consulted |-> FALSE]
        ELSE [ret |-> normalizedEventToPosition(s, p[1], p[2]), consulted |-> TRUE]

(***************************************************************************)
(* Calls on a configured backend.  The initial state is a backend that     *)
(* one setOptions call has configured, with the call about to be made.     *)
(***************************************************************************)
\* Fully defaulted options, as the display passes them.
FullOptions(widths, heights, fontSizes, borders, families) ==
    [width : {Num(n) : n \in widths},
     height : {Num(n) : n \in heights},
     layout : {Str("hex")},
     fg : {Str("#ccc")},
     bg : {Str("#000")},
     fontSize : {Num(n) : n \in fontSizes},
     spacing : {Num(1)},
     border : {Num(n) : n \in borders},
     fontFamily : {Str(f) : f \in families},
     fontStyle : {Str("")},
     transpose : {Bool(FALSE), Bool(TRUE)}]

(***************************************************************************)
(* draw                                                                    *)
(***************************************************************************)
Glyphs == {"@", "#"}

DrawArgs(s) ==
    [op : {"draw"},
     data : [x : 0..(Get(s.options, "width").num - 1),
             y : 0..(Get(s.options, "height").num - 1),
             chars : UNION {[1..n -> Glyphs] : n \in 0..MaxChars},
             fg : {"#fff", "#f00"},
             bg : {"#000", "#00f"}],
     clearBefore : BOOLEAN]

\* backend.draw(data, clearBefore)
Draw ==
    /\ arg.op = "draw"
    /\ \E r \in {draw(Self, arg.data, arg.clearBefore)} :
           /\ ops' = r.ops
           /\ ctx' = [ctx EXCEPT !.fillStyle = r.fillStyle]
    /\ last' = arg
    /\ arg' = NoCall
    /\ UNCHANGED <<options, hexSize, spacingX, spacingY, canvas, calls, raf>>

(***************************************************************************)
(* eventToPosition                                                         *)
(***************************************************************************)
\* The canvas shown at its own size at the origin of the page, and shown
\* at twice its size away from the origin.
Rects(s) ==
    { [left |-> 0, top |-> 0, width |-> s.canvas.width, height |-> s.canvas.height],
      [left |-> 1, top |-> 2, width |-> 2 * s.canvas.width,
       height |-> 2 * s.canvas.height] }

\* The client point that rect shows the surface point p at.
ClientPoint(s, rect, p) ==
    << Add(Int2Q(rect.left), Mul(p[1], Q(rect.width, 0, s.canvas.width))),
       Add(Int2Q(rect.top), Mul(p[2], Q(rect.height, 0, s.canvas.height))) >>

Cells(s) ==
    (0..(Get(s.options, "width").num - 1)) \X (0..(Get(s.options, "height").num - 1))

\* The points of the pixel grid, and the centres draw gives to the cells.
EventArgs(s) ==
    { [op |-> "eventToPosition", x |-> p[1], y |-> p[2], rect |-> rect] :
        p \in { <<Int2Q(x), Int2Q(y)>> : x, y \in (-1)..MaxPixel },
        rect \in Rects(s) }
    \cup
    { [op |-> "eventToPosition",
       x |-> ClientPoint(s, rect, CellPixel(s, c[1], c[2]))[1],
       y |-> ClientPoint(s, rect, CellPixel(s, c[1], c[2]))[2],
       rect |-> rect] : c \in Cells(s), rect \in Rects(s) }

\* backend.eventToPosition(x, y)
EventToPosition ==
    /\ arg.op = "eventToPosition"
    /\ \E r \in {eventToPosition(Self, arg.x, arg.y, arg.rect)} :
           last' = [op |-> "eventToPosition", x |-> arg.x, y |-> arg.y,
                    rect |-> arg.rect, ret |-> r.ret, consulted |-> r.consulted]
    /\ arg' = NoCall
    /\ UNCHANGED <<backend, calls, ops, raf>>

(***************************************************************************)
(* computeSize and computeFontSize                                         *)
(***************************************************************************)
SizeArgs(s) ==
    [op : {"computeSize", "computeFontSize"},
     availWidth : 1..MaxBox, availHeight : 1..MaxBox]

\* backend.computeSize(availWidth, availHeight)
ComputeSize ==
    /\ arg.op = "computeSize"
    /\ last' = [op |-> "computeSize", availWidth |-> arg.availWidth,
                availHeight |-> arg.availHeight,
                ret |-> computeSize(Self, arg.availWidth, arg.availHeight)]
    /\ arg' = NoCall
    /\ UNCHANGED <<backend, calls, ops, raf>>

\* backend.computeFontSize(availWidth, availHeight)
ComputeFontSize ==
    /\ arg.op = "computeFontSize"
    /\ last' = [op |-> "computeFontSize", availWidth |-> arg.availWidth,
                availHeight |-> arg.availHeight,
                ret |-> computeFontSize(Self, arg.availWidth, arg.availHeight)]
    /\ arg' = NoCall
    /\ UNCHANGED <<backend, calls, ops, raf>>

(***************************************************************************)
(* The specifications of the calls on a configured backend.                *)
(***************************************************************************)
ArgsFor(kind, s) ==
    IF kind = "draw" THEN DrawArgs(s)
    ELSE IF kind = "eventToPosition" THEN EventArgs(s)
    ELSE SizeArgs(s)

\* A backend that setOptions(opts), opts of inputs, has configured, and a
\* call of the kind about to be made on it.
Configured(inputs, kind) ==
    \E opts \in inputs :
        \E r \in {CanvasSetOptions(NewHex, opts)} :
            /\ options = r.self.options
            /\ hexSize = r.self.hexSize
            /\ spacingX = r.self.spacingX
            /\ spacingY = r.self.spacingY
            /\ canvas = r.self.canvas
            /\ ctx = r.self.ctx
            /\ calls = 1
            /\ arg \in ArgsFor(kind, r.self)
            /\ last = [op |-> "setOptions", opts |-> opts, ret |-> r.ret]
            /\ ops = << >>
            /\ callbacks = << >>
            /\ running = << >>
            /\ nextId = 0
            /\ active = 0
            /\ invoked = << >>

InitDraw == Configured(FullOptions({2}, {2}, {3}, {0, 1}, {"monospace"}), "draw")
NextDraw == Draw
SpecDraw == InitDraw /\ [][NextDraw]_vars

InitEvent ==
    Configured(FullOptions(2..MaxGrid, 2..MaxGrid, {3, 5}, {0}, {"monospace"}),
               "eventToPosition")
NextEvent == EventToPosition
SpecEvent == InitEvent /\ [][NextEvent]_vars

InitSize ==
    Configured(FullOptions(2..MaxGrid, 2..MaxGrid, {3, 5}, {0},
                           {"monospace", "Consolas"}),
               "size")
NextSize == ComputeSize \/ ComputeFontSize
SpecSize == InitSize /\ [][NextSize]_vars

(***************************************************************************)
(* Claims about draw.                                                      *)
(***************************************************************************)
\* C4: draw(data, clearBefore) issues one hexagon fill, in the cell's
\* background, if and only if clearBefore is true, then one fillText per
\* entry of data.chars in sequence order, each at the cell's pixel and in
\* the cell's foreground, and nothing else.
C4_DrawIssuesClearThenGlyphs ==
    last.op = "draw" =>
        LET k == IF last.clearBefore THEN 1 ELSE 0
            chars == last.data.chars
            px == CellPixel(Self, last.data.x, last.data.y)
        IN  /\ Len(ops) = k + Len(chars)
            /\ last.clearBefore =>
                   /\ ops[1].op = "fill"
                   /\ ops[1].fillStyle = last.data.bg
                   /\ Len(ops[1].path) = 7
                   /\ ops[1].path[1] = ops[1].path[7]
            /\ \A i \in 1..Len(chars) :
                   /\ ops[k + i].op = "fillText"
                   /\ ops[k + i].text = chars[i]
                   /\ ops[k + i].fillStyle = last.data.fg
                   /\ ops[k + i].x = px[1]

\* A cell with two different glyphs was drawn after a clear.
C4_Witness ==
    /\ last.op = "draw"
    /\ last.clearBefore
    /\ Len(last.data.chars) = 2
    /\ last.data.chars[1] # last.data.chars[2]
    /\ Len(ops) = 3

(***************************************************************************)
(* Claims about eventToPosition.                                           *)
(***************************************************************************)
\* The surface-space point of the last eventToPosition call.
LastPoint == SurfacePoint(Self, last.x, last.y, last.rect)

LastInBounds ==
    /\ Sgn(LastPoint[1]) >= 0
    /\ Sgn(LastPoint[2]) >= 0
    /\ Lt(LastPoint[1], Int2Q(canvas.width))
    /\ Lt(LastPoint[2], Int2Q(canvas.height))

\* C5: eventToPosition returns [-1, -1], without consulting the layout's
\* mapping, for every point whose surface-space coordinates have x < 0,
\* y < 0, x >= canvas.width or y >= canvas.height.
C5_OutOfBoundsIsMinusOne ==
    (last.op = "eventToPosition" /\ ~LastInBounds) =>
        (last.ret = <<-1, -1>> /\ ~last.consulted)

\* A point on the right edge of the canvas, x = canvas.width, was mapped.
C5_Witness ==
    /\ last.op = "eventToPosition"
    /\ LastPoint[1] = Int2Q(canvas.width)
    /\ Sgn(LastPoint[2]) >= 0
    /\ Lt(LastPoint[2], Int2Q(canvas.height))
    /\ last.ret = <<-1, -1>>

\* The last eventToPosition call was made at the centre draw gives to c.
LastIsCentreOf(c) ==
    /\ last.op = "eventToPosition"
    /\ <<last.x, last.y>> = ClientPoint(Self, last.rect, CellPixel(Self, c[1], c[2]))

\* C6 as stated: the centre of every cell (c, r) of the grid maps back to
\* (c, r).
C6_EveryCentreMapsBack ==
    \A c \in Cells(Self) : LastIsCentreOf(c) => last.ret = c

\* C6 amended: with hexSize >= 1, the centre of every cell (c, r) whose
\* c + r is even (the cells of the doubled-width hex grid) maps back to
\* (c, r), under either transpose setting.
C6_EvenCentreMapsBack ==
    \A c \in Cells(Self) :
        (LastIsCentreOf(c) /\ (c[1] + c[2]) % 2 = 0 /\ Sgn(hexSize) > 0)
            => last.ret = c

\* The centre of cell (1, 1), on an odd row of a transposed grid shown at
\* twice its size, was mapped back to (1, 1).
C6_Witness ==
    /\ LastIsCentreOf(<<1, 1>>)
    /\ Get(options, "transpose") = Bool(TRUE)
    /\ last.rect.left = 1
    /\ last.ret = <<1, 1>>

\* C10: every point inside the surface bounds maps to a cell of the grid,
\* 0 <= col < width and 0 <= row < height.
C10_InBoundsMapsInsideGrid ==
    (last.op = "eventToPosition" /\ LastInBounds) =>
        /\ 0 <= last.ret[1] /\ last.ret[1] < Get(options, "width").num
        /\ 0 <= last.ret[2] /\ last.ret[2] < Get(options, "height").num

(***************************************************************************)
(* Claims about computeSize and computeFontSize.                           *)
(***************************************************************************)
\* The same backend, same geometry, with the transpose option flipped.
Flipped ==
    [Self EXCEPT !.options.transpose = Bool(~Truthy(Get(options, "transpose")))]

\* C7 as stated: computeSize(W, H) equals computeSize(H, W) of the same
\* geometry under the other transpose setting with the two components of
\* the result swapped (stated here of the boxes that hold a cell at least).
C7_TransposeSwapsResult ==
    (last.op = "computeSize" /\ last.ret[1] >= 1 /\ last.ret[2] >= 1) =>
        LET other == computeSize(Flipped, last.availHeight, last.availWidth)
        IN  last.ret = <<other[2], other[1]>>

\* C7 amended: computeSize(W, H) equals computeSize(H, W) of the same
\* geometry under the other transpose setting, component for component:
\* the result is [columns, rows] in both and is not swapped.
C7_TransposeSwapsBox ==
    last.op = "computeSize" =>
        last.ret = computeSize(Flipped, last.availHeight, last.availWidth)

\* computeSize was called on a transposed backend with a box that is not
\* square and answered a grid that is not square.
C7_Witness ==
    /\ last.op = "computeSize"
    /\ Get(options, "transpose") = Bool(TRUE)
    /\ last.availWidth # last.availHeight
    /\ last.ret[1] >= 1
    /\ last.ret[2] >= 1
    /\ last.ret[1] # last.ret[2]

\* The backend after setOptions with the font size F in place of its own.
WithFontSize(F) ==
    CanvasSetOptions(Self, [options EXCEPT !.fontSize = Num(F)]).self

\* C8: with F = computeFontSize(W, H) and the geometry _updateSize derives
\* from F (taken where F and the hexSize are at least 1), computeSize(W, H)
\* is at least the configured columns by rows, and the canvas sized for them
\* does not exceed W by H.
C8_FontFitFitsBox ==
    (last.op = "computeFontSize" /\ last.ret >= 1) =>
        LET fit == WithFontSize(last.ret)
            size == computeSize(fit, last.availWidth, last.availHeight)
        IN  Sgn(fit.hexSize) > 0 =>
                /\ size[1] >= Get(options, "width").num
                /\ size[2] >= Get(options, "height").num
                /\ fit.canvas.width <= last.availWidth
                /\ fit.canvas.height <= last.availHeight
====
